---------------------------- MODULE Spec2Model ----------------------------
(***************************************************************************)
(* A model of tradingbot.py: the indicator computations                    *)
(* (calculate_ema_rsi_macd, calculate_volatility), the trend analysis      *)
(* (analyze_trends), the extrema detection (find_turning_points), the      *)
(* decision rule (make_decision) and the batch loop of __main__.           *)
(*                                                                         *)
(* Numbers.  Close prices are integers, counted in ticks of 1/TicksPerUnit *)
(* of a currency unit.  Every derived value is an exact fraction           *)
(*     n / (d * U^e)                                                       *)
(* with n a signed and d a positive arbitrary-precision integer, so the    *)
(* recurrences are computed exactly as written in the source (IEEE         *)
(* rounding is not modelled; the IEEE special values NaN and +-inf, which  *)
(* the source produces by dividing by zero and by windows that are not yet *)
(* full, are).                                                             *)
(***************************************************************************)
EXTENDS Integers, Sequences, FiniteSets, TLC

(***************************************************************************)
(* Strategy parameters, tradingbot.py lines 12-22.                         *)
(***************************************************************************)
SHORT_EMA_WINDOW == 13
LONG_EMA_WINDOW == 34
RSI_WINDOW == 14
RSI_OVERBOUGHT == 70
RSI_OVERSOLD == 30
MACD_FAST == 12
MACD_SLOW == 26
MACD_SIGNAL == 9
TREND_LOOKBACK == 90
VOLATILITY_LOOKBACK == 20
\* STD_MULTIPLIER = 1.5, as the fraction 3/2
STD_MULTIPLIER == <<3, 2>>
\* order=5 of both argrelextrema calls
EXTREMA_ORDER == 5
\* peak_proximity_days = trough_proximity_days = 5
PROXIMITY_DAYS == 5

(***************************************************************************)
(* Resolution of the price grid: one tick is 1/TicksPerUnit.               *)
(***************************************************************************)
TicksPerUnit == 2000

(***************************************************************************)
(* Arbitrary-precision naturals: little-endian sequences of limbs in       *)
(* 0..Base-1 without a leading zero limb; zero is the empty sequence.      *)
(***************************************************************************)
Base == 10000

Rest(s) == IF s = <<>> THEN <<>> ELSE Tail(s)
Limb0(s) == IF s = <<>> THEN 0 ELSE Head(s)

RECURSIVE NatNorm(_)
NatNorm(s) ==
    IF s = <<>> THEN <<>>
    ELSE IF s[Len(s)] = 0 THEN NatNorm(SubSeq(s, 1, Len(s) - 1))
    ELSE s

RECURSIVE NatFromInt(_)
NatFromInt(i) ==
    IF i = 0 THEN <<>> ELSE <<i % Base>> \o NatFromInt(i \div Base)

RECURSIVE NatAddC(_, _, _)
NatAddC(a, b, c) ==
    IF a = <<>> /\ b = <<>>
    THEN (IF c = 0 THEN <<>> ELSE <<c>>)
    ELSE LET s == Limb0(a) + Limb0(b) + c
         IN  <<s % Base>> \o NatAddC(Rest(a), Rest(b), s \div Base)

NatAdd(a, b) == NatAddC(a, b, 0)

\* a - b for a >= b
RECURSIVE NatSubB(_, _, _)
NatSubB(a, b, w) ==
    IF a = <<>> THEN <<>>
    ELSE LET s == Limb0(a) - Limb0(b) - w
         IN  IF s < 0
             THEN <<s + Base>> \o NatSubB(Rest(a), Rest(b), 1)
             ELSE <<s>> \o NatSubB(Rest(a), Rest(b), 0)

NatSub(a, b) == NatNorm(NatSubB(a, b, 0))

\* -1, 0, 1 as a < b, a = b, a > b
RECURSIVE NatCmpAt(_, _, _)
NatCmpAt(a, b, i) ==
    IF i = 0 THEN 0
    ELSE IF a[i] < b[i] THEN -1
    ELSE IF a[i] > b[i] THEN 1
    ELSE NatCmpAt(a, b, i - 1)

NatCmp(a, b) ==
    IF Len(a) < Len(b) THEN -1
    ELSE IF Len(a) > Len(b) THEN 1
    ELSE NatCmpAt(a, b, Len(a))

\* a * m for a machine integer 0 <= m with Base * m within the integers
RECURSIVE NatMulC(_, _, _)
NatMulC(a, m, c) ==
    IF a = <<>> THEN NatFromInt(c)
    ELSE LET s == Head(a) * m + c
         IN  <<s % Base>> \o NatMulC(Tail(a), m, s \div Base)

NatMulSmall(a, m) == IF m = 0 THEN <<>> ELSE NatMulC(a, m, 0)

RECURSIVE NatMul(_, _)
NatMul(a, b) ==
    IF a = <<>> \/ b = <<>> THEN <<>>
    ELSE LET hi == NatMul(a, Tail(b))
         IN  NatAdd(NatMulSmall(a, Head(b)),
                    IF hi = <<>> THEN <<>> ELSE <<0>> \o hi)

RECURSIVE NatPow(_, _)
NatPow(m, k) == IF k = 0 THEN <<1>> ELSE NatMulSmall(NatPow(m, k - 1), m)

(***************************************************************************)
(* Signed integers [neg, mag]; zero is never negative.                     *)
(***************************************************************************)
ZMk(neg, mag) == [neg |-> neg /\ mag # <<>>, mag |-> mag]
ZFromInt(i) == IF i < 0 THEN ZMk(TRUE, NatFromInt(-i)) ELSE ZMk(FALSE, NatFromInt(i))
ZNeg(a) == ZMk(~a.neg, a.mag)
ZAdd(a, b) ==
    IF a.neg = b.neg THEN ZMk(a.neg, NatAdd(a.mag, b.mag))
    ELSE IF NatCmp(a.mag, b.mag) >= 0 THEN ZMk(a.neg, NatSub(a.mag, b.mag))
    ELSE ZMk(b.neg, NatSub(b.mag, a.mag))
ZSub(a, b) == ZAdd(a, ZNeg(b))
ZMulNat(a, m) == ZMk(a.neg, NatMul(a.mag, m))
ZMulInt(a, i) ==
    IF i < 0 THEN ZMk(~a.neg, NatMulSmall(a.mag, -i))
    ELSE ZMk(a.neg, NatMulSmall(a.mag, i))
ZCmp(a, b) ==
    IF a.neg /\ ~b.neg THEN -1
    ELSE IF ~a.neg /\ b.neg THEN 1
    ELSE IF a.neg THEN NatCmp(b.mag, a.mag)
    ELSE NatCmp(a.mag, b.mag)
ZSign(a) == IF a.mag = <<>> THEN 0 ELSE IF a.neg THEN -1 ELSE 1


(***************************************************************************)
(* Floats.  [k, n, d, e]: k = "num" is the fraction n / (d * U^e);         *)
(* k = "nan" is NaN; k = "inf" is an infinity (its sign never reaches a    *)
(* result: the source only computes 100 / (1 + rs) from it);               *)
(* k = "sqrt" is the square root of the fraction, kept symbolic.           *)
(* U is a common multiple of the smoothing denominators, so a smoothing    *)
(* step multiplies the numerator and raises e by one, exactly.             *)
(***************************************************************************)
RECURSIVE Gcd(_, _)
Gcd(a, b) == IF b = 0 THEN a ELSE Gcd(b, a % b)
Lcm(a, b) == (a \div Gcd(a, b)) * b

U == Lcm(Lcm(Lcm(SHORT_EMA_WINDOW + 1, LONG_EMA_WINDOW + 1),
             Lcm(RSI_WINDOW, MACD_FAST + 1)),
         Lcm(MACD_SLOW + 1, MACD_SIGNAL + 1))

NaN == [k |-> "nan", n |-> ZFromInt(0), d |-> <<1>>, e |-> 0]
Inf == [k |-> "inf", n |-> ZFromInt(0), d |-> <<1>>, e |-> 0]
Frac(n, d, e) == [k |-> "num", n |-> n, d |-> d, e |-> e]
Num(i) == Frac(ZFromInt(i), <<1>>, 0)
\* the fraction p/q of machine integers, q > 0
Ratio(p, q) == Frac(ZFromInt(p), NatFromInt(q), 0)

IsNum(a) == a.k = "num"
IsNaN(a) == a.k = "nan"
IsInf(a) == a.k = "inf"

\* numerator of a over the denominator a.d * U^e, for e >= a.e
ScaledNum(a, e) == ZMulNat(a.n, NatPow(U, e - a.e))
MaxE(a, b) == IF a.e >= b.e THEN a.e ELSE b.e

\* -1, 0, 1; both arguments numbers
FCmp(a, b) ==
    LET e == MaxE(a, b)
    IN  IF a.d = b.d THEN ZCmp(ScaledNum(a, e), ScaledNum(b, e))
        ELSE ZCmp(ZMulNat(ScaledNum(a, e), b.d), ZMulNat(ScaledNum(b, e), a.d))

\* IEEE comparisons: FALSE as soon as one side is NaN
FLess(a, b) == IsNum(a) /\ IsNum(b) /\ FCmp(a, b) < 0
FGreater(a, b) == FLess(b, a)
FLeq(a, b) == IsNum(a) /\ IsNum(b) /\ FCmp(a, b) <= 0
\* the same value (NaN taken as equal to NaN: "undefined in both")
FSame(a, b) ==
    IF a.k = b.k /\ a.k \in {"num", "sqrt"} THEN FCmp(a, b) = 0 ELSE a.k = b.k

FAdd(a, b) ==
    IF IsNaN(a) \/ IsNaN(b) THEN NaN
    ELSE IF IsInf(a) \/ IsInf(b) THEN Inf
    ELSE LET e == MaxE(a, b)
             x == ScaledNum(a, e)
             y == ScaledNum(b, e)
         IN  IF a.d = b.d THEN Frac(ZAdd(x, y), a.d, e)
             ELSE Frac(ZAdd(ZMulNat(x, b.d), ZMulNat(y, a.d)), NatMul(a.d, b.d), e)

FNeg(a) == IF IsNum(a) THEN Frac(ZNeg(a.n), a.d, a.e) ELSE a
FSub(a, b) == FAdd(a, FNeg(b))

FMul(a, b) ==
    IF IsNaN(a) \/ IsNaN(b) THEN NaN
    ELSE IF IsInf(a) \/ IsInf(b) THEN Inf
    ELSE Frac(ZMk(a.n.neg # b.n.neg, NatMul(a.n.mag, b.n.mag)),
              NatMul(a.d, b.d), a.e + b.e)

\* a * p / q for machine integers p >= 0 and q > 0 with q | U
FScale(a, p, q) ==
    IF ~IsNum(a) THEN a
    ELSE Frac(ZMulInt(a.n, p * (U \div q)), a.d, a.e + 1)

\* IEEE division as numpy does it: x/0 is NaN for x = 0 and an infinity
\* otherwise, x/inf is 0
FDiv(a, b) ==
    IF IsNaN(a) \/ IsNaN(b) THEN NaN
    ELSE IF IsInf(b) THEN (IF IsInf(a) THEN NaN ELSE Num(0))
    ELSE IF IsInf(a) THEN Inf
    ELSE IF ZSign(b.n) = 0 THEN (IF ZSign(a.n) = 0 THEN NaN ELSE Inf)
    ELSE LET m == IF a.e <= b.e THEN a.e ELSE b.e
             ad == IF a.d = b.d THEN <<1>> ELSE a.d
             bd == IF a.d = b.d THEN <<1>> ELSE b.d
         IN  Frac(ZMk(a.n.neg # b.n.neg,
                      NatMul(NatMul(a.n.mag, bd), NatPow(U, b.e - m))),
                  NatMul(NatMul(b.n.mag, ad), NatPow(U, a.e - m)), 0)

(***************************************************************************)
(* Sequence helpers.                                                       *)
(***************************************************************************)
Last(s) == s[Len(s)]

RECURSIVE FSum(_)
FSum(s) == IF s = <<>> THEN Num(0) ELSE FAdd(Head(s), FSum(Tail(s)))

(***************************************************************************)
(* pandas Series.ewm(alpha = p/q, adjust=False).mean() of a column without *)
(* NaN: y[0] = x[0], y[i] = (1 - alpha) * y[i-1] + alpha * x[i].           *)
(***************************************************************************)
RECURSIVE ewm_mean(_, _, _)
ewm_mean(xs, p, q) ==
    IF Len(xs) <= 1 THEN xs
    ELSE LET prev == ewm_mean(SubSeq(xs, 1, Len(xs) - 1), p, q)
         IN  Append(prev, FAdd(FScale(Last(prev), q - p, q),
                               FScale(Last(xs), p, q)))

\* ewm(span=s): alpha = 2 / (s + 1)
ewm_span(xs, s) == ewm_mean(xs, 2, s + 1)

(***************************************************************************)
(* calculate_ema_rsi_macd, lines 40-68.  Close is a sequence of tick       *)
(* counts; the result is the data frame with the new columns.              *)
(***************************************************************************)
Price(ticks) == Ratio(ticks, TicksPerUnit)
CloseCol(close) == [i \in 1..Len(close) |-> Price(close[i])]

\* data["Close"].diff(): NaN at the first row
diff(xs) == [i \in 1..Len(xs) |-> IF i = 1 THEN NaN ELSE FSub(xs[i], xs[i - 1])]

\* delta.where(delta > 0, 0): the delta where it is positive, 0 elsewhere
\* (also where delta is NaN, since NaN > 0 is False)
gain_of(delta) ==
    [i \in 1..Len(delta) |-> IF FGreater(delta[i], Num(0)) THEN delta[i] ELSE Num(0)]

\* -delta.where(delta < 0, 0); the zeros are IEEE -0.0
loss_of(delta) ==
    [i \in 1..Len(delta) |-> IF FLess(delta[i], Num(0)) THEN FNeg(delta[i]) ELSE Num(0)]

\* 100 - (100 / (1 + rs)) with rs = avg_gain / avg_loss, elementwise
rsi_of(avg_gain, avg_loss) ==
    [i \in 1..Len(avg_gain) |->
        LET rs == FDiv(avg_gain[i], avg_loss[i])
        IN  FSub(Num(100), FDiv(Num(100), FAdd(Num(1), rs)))]

calculate_ema_rsi_macd(data) ==
    LET c == data.Close
        delta == diff(c)
        avg_gain == ewm_mean(gain_of(delta), 1, RSI_WINDOW)
        avg_loss == ewm_mean(loss_of(delta), 1, RSI_WINDOW)
        fast == ewm_span(c, MACD_FAST)
        slow == ewm_span(c, MACD_SLOW)
        line == [i \in 1..Len(c) |-> FSub(fast[i], slow[i])]
        signal == ewm_span(line, MACD_SIGNAL)
    IN  [Short_EMA |-> ewm_span(c, SHORT_EMA_WINDOW),
         Long_EMA |-> ewm_span(c, LONG_EMA_WINDOW),
         RSI |-> rsi_of(avg_gain, avg_loss),
         MACD_Fast |-> fast,
         MACD_Slow |-> slow,
         MACD_Line |-> line,
         MACD_Signal |-> signal,
         MACD_Hist |-> [i \in 1..Len(c) |-> FSub(line[i], signal[i])]] @@ data


(***************************************************************************)
(* analyze_trends, lines 85-96.  LinearRegression().fit(x, y) over         *)
(* x = 0..len(window)-1 is the least-squares line:                         *)
(*   slope = (L*Sxy - Sx*Sy) / (L*Sxx - Sx*Sx), intercept = (Sy - slope*Sx)/L *)
(***************************************************************************)
RECURSIVE SumXY(_, _)
\* sum over the window of x(i) * y[i] with x(i) = i - 1
SumXY(ys, i) ==
    IF i = 0 THEN Num(0) ELSE FAdd(FMul(Num(i - 1), ys[i]), SumXY(ys, i - 1))

RECURSIVE SumInt(_, _)
\* sum of f over 0..k-1 for f the identity (p = 1) or the square (p = 2)
SumInt(k, p) ==
    IF k = 0 THEN 0
    ELSE (IF p = 1 THEN k - 1 ELSE (k - 1) * (k - 1)) + SumInt(k - 1, p)

LinearRegression(ys) ==
    LET L == Len(ys)
        Sx == Num(SumInt(L, 1))
        Sxx == Num(SumInt(L, 2))
        Sy == FSum(ys)
        Sxy == SumXY(ys, L)
        slope == FDiv(FSub(FMul(Num(L), Sxy), FMul(Sx, Sy)),
                      FSub(FMul(Num(L), Sxx), FMul(Sx, Sx)))
    IN  [slope |-> slope,
         intercept |-> FDiv(FSub(Sy, FMul(slope, Sx)), Num(L))]

\* the segment appended for i (0-based): window = Close[i - lookback : i]
TrendAt(data, lookback, i) ==
    LET model == LinearRegression(SubSeq(data.Close, i - lookback + 1, i))
    IN  [date |-> data.index[i + 1], slope |-> model.slope,
         intercept |-> model.intercept]

\* analyze_trends with the window taken one bar late: Close[i-lookback+1 : i+1]
analyze_trends_late(data, lookback) ==
    [j \in 1..(IF Len(data.Close) > lookback THEN Len(data.Close) - lookback ELSE 0)
        |-> LET model == LinearRegression(SubSeq(data.Close, j + 1, lookback + j))
            IN  [date |-> data.index[lookback + j], slope |-> model.slope,
                 intercept |-> model.intercept]]

\* analyze_trends with the lookback shortened to the history at hand:
\* lookback = min(lookback, len(data) - 1)
analyze_trends_clamped(data, lookback) ==
    LET n == Len(data.Close)
        lb == IF lookback < n - 1 THEN lookback ELSE n - 1
    IN  [j \in 1..(IF n > lb /\ lb >= 2 THEN n - lb ELSE 0)
            |-> TrendAt(data, lb, lb + j - 1)]

\* for i in range(lookback, len(data))
analyze_trends(data, lookback) ==
    [j \in 1..(IF Len(data.Close) > lookback THEN Len(data.Close) - lookback ELSE 0)
        |-> TrendAt(data, lookback, lookback + j - 1)]

(***************************************************************************)
(* calculate_volatility, lines 101-120.  rolling(window).std() is the      *)
(* sample standard deviation (ddof = 1) of the last `lookback` closes and  *)
(* NaN while the window is not full.  The square root is kept symbolic:    *)
(* Volatility is k = "sqrt" over the variance; a band is                   *)
(* mid + sgn * sqrt(rad) with rad = multiplier^2 * variance.               *)
(***************************************************************************)
rolling_mean(xs, lookback, i) ==
    IF i < lookback THEN NaN
    ELSE FDiv(FSum(SubSeq(xs, i - lookback + 1, i)), Num(lookback))

\* sum of (x - mean)^2 over the window, divided by lookback - 1
rolling_var(xs, lookback, i) ==
    IF i < lookback THEN NaN
    ELSE LET w == SubSeq(xs, i - lookback + 1, i)
             m == rolling_mean(xs, lookback, i)
             sq == [j \in 1..lookback |-> FMul(FSub(w[j], m), FSub(w[j], m))]
         IN  FDiv(FSum(sq), Num(lookback - 1))

FSqrt(v) ==
    IF ~IsNum(v) THEN v
    ELSE IF ZSign(v.n) = 0 THEN Num(0)
    ELSE [v EXCEPT !.k = "sqrt"]

Band(mid, var, multiplier, sgn) ==
    IF IsNaN(mid) \/ IsNaN(var) THEN [k |-> "nan"]
    ELSE [k |-> "band", mid |-> mid, sgn |-> sgn,
          rad |-> FMul(Ratio(multiplier[1] * multiplier[1],
                             multiplier[2] * multiplier[2]), var)]

BandSame(a, b) ==
    IF a.k = "band" /\ b.k = "band"
    THEN FSame(a.mid, b.mid) /\ FSame(a.rad, b.rad) /\ a.sgn = b.sgn
    ELSE a.k = b.k

\* a rolling window that ends one bar after the row it is stored in
calculate_volatility_ahead(data, lookback, multiplier) ==
    LET c == data.Close
        n == Len(c)
        var(i) == IF i < n THEN rolling_var(c, lookback, i + 1) ELSE NaN
        mid(i) == IF i < n THEN rolling_mean(c, lookback, i + 1) ELSE NaN
    IN  [Volatility |-> [i \in 1..n |-> FSqrt(var(i))],
         Upper_Band |-> [i \in 1..n |-> Band(mid(i), var(i), multiplier, 1)],
         Lower_Band |-> [i \in 1..n |-> Band(mid(i), var(i), multiplier, -1)]]
        @@ data

calculate_volatility(data, lookback, multiplier) ==
    LET c == data.Close
        n == Len(c)
    IN  [Volatility |-> [i \in 1..n |-> FSqrt(rolling_var(c, lookback, i))],
         Upper_Band |-> [i \in 1..n |->
             Band(rolling_mean(c, lookback, i), rolling_var(c, lookback, i),
                  multiplier, 1)],
         Lower_Band |-> [i \in 1..n |->
             Band(rolling_mean(c, lookback, i), rolling_var(c, lookback, i),
                  multiplier, -1)]] @@ data

(***************************************************************************)
(* find_turning_points, lines 129-143.  scipy's argrelextrema(values,      *)
(* comparator, order) runs in its default mode 'clip': for each shift in   *)
(* 1..order the value is compared with the values `shift` places before    *)
(* and after it, an index past either end being replaced by the end index. *)
(* Positions are 0-based, as in the source.                                *)
(***************************************************************************)
Clip(i, n) == IF i < 0 THEN 0 ELSE IF i > n - 1 THEN n - 1 ELSE i

\* np.greater and np.less
Compare(comparator, a, b) ==
    IF comparator = "greater" THEN FGreater(a, b) ELSE FLess(a, b)

\* argrelextrema with the comparators np.greater_equal and np.less_equal
argrelextrema_or_equal(values, comparator, order) ==
    LET n == Len(values)
        cmp(a, b) == IF comparator = "greater" THEN FLeq(b, a) ELSE FLeq(a, b)
        hit(i) == \A shift \in 1..order :
                     /\ cmp(values[i + 1], values[Clip(i + shift, n) + 1])
                     /\ cmp(values[i + 1], values[Clip(i - shift, n) + 1])
    IN  {i \in 0..(n - 1) : hit(i)}

argrelextrema(values, comparator, order) ==
    LET n == Len(values)
        hit(i) == \A shift \in 1..order :
                     /\ Compare(comparator, values[i + 1], values[Clip(i + shift, n) + 1])
                     /\ Compare(comparator, values[i + 1], values[Clip(i - shift, n) + 1])
    IN  {i \in 0..(n - 1) : hit(i)}

RECURSIVE SortedSeq(_)
\* the positions of a set in increasing order
SortedSeq(S) ==
    IF S = {} THEN <<>>
    ELSE LET m == CHOOSE x \in S : \A y \in S : x <= y
         IN  <<m>> \o SortedSeq(S \ {m})

\* data.iloc[indices]: the rows at these positions
iloc(data, indices) ==
    LET ps == SortedSeq(indices)
    IN  [j \in 1..Len(ps) |->
            [pos |-> ps[j], date |-> data.index[ps[j] + 1],
             Close |-> data.Close[ps[j] + 1]]]

find_turning_points(data) ==
    [peaks |-> iloc(data, argrelextrema(data.Close, "greater", EXTREMA_ORDER)),
     troughs |-> iloc(data, argrelextrema(data.Close, "less", EXTREMA_ORDER))]


(***************************************************************************)
(* make_decision, lines 148-231.  data.index holds the bars' dates as day  *)
(* numbers; trends is the list analyze_trends built; peaks and troughs are *)
(* the rows find_turning_points returned.                                  *)
(***************************************************************************)
None == [date |-> -1, slope |-> NaN, intercept |-> NaN]

\* lines 159-163: the first trend, scanning from the end, dated at or
\* before the last bar
CurrentTrend(data, trends) ==
    LET ok == {j \in 1..Len(trends) : trends[j].date <= Last(data.index)}
    IN  IF ok = {} THEN None
        ELSE trends[CHOOSE j \in ok : \A h \in ok : h <= j]

\* TrendSignal with the thresholds ten times too wide (0.01 for 0.001)
TrendSignalWide(current_trend) ==
    IF current_trend # None
    THEN IF FGreater(current_trend.slope, Ratio(1, 100)) THEN "Uptrend"
         ELSE IF FLess(current_trend.slope, Ratio(-1, 100)) THEN "Downtrend"
         ELSE "Sideways"
    ELSE "No Trend"

\* lines 168-176
TrendSignal(current_trend) ==
    IF current_trend # None
    THEN IF FGreater(current_trend.slope, Ratio(1, 1000)) THEN "Uptrend"
         ELSE IF FLess(current_trend.slope, Ratio(-1, 1000)) THEN "Downtrend"
         ELSE "Sideways"
    ELSE "No Trend"

\* np.mean(data['Volatility']): the mean of the entries that are not NaN,
\* NaN when there is none
NanMean(col) ==
    LET xs == SelectSeq(col, LAMBDA v : ~IsNaN(v))
    IN  IF xs = <<>> THEN NaN ELSE FDiv(FSum(xs), Num(Len(xs)))

\* line 181
IsVolatile(data) == FGreater(Last(data.Volatility), NanMean(data.Volatility))

\* lines 194-198 and 203-207: some row lies 0..proximity days before the
\* last bar
Near(data, rows, proximity_days) ==
    \E j \in 1..Len(rows) :
        LET time_diff == Last(data.index) - rows[j].date
        IN  0 <= time_diff /\ time_diff <= proximity_days

\* BuyRule with the price test weakened to >=
BuyRuleGeq(data, current_price, trend_signal, is_volatile, near_peak) ==
    /\ trend_signal = "Uptrend"
    /\ ~FLess(current_price, Last(data.Short_EMA))
    /\ FLess(Last(data.RSI), Num(RSI_OVERBOUGHT))
    /\ FGreater(Last(data.MACD_Line), Last(data.MACD_Signal))
    /\ ~is_volatile
    /\ ~near_peak

\* lines 212-219
BuyRule(data, current_price, trend_signal, is_volatile, near_peak) ==
    /\ trend_signal = "Uptrend"
    /\ FGreater(current_price, Last(data.Short_EMA))
    /\ FLess(Last(data.RSI), Num(RSI_OVERBOUGHT))
    /\ FGreater(Last(data.MACD_Line), Last(data.MACD_Signal))
    /\ ~is_volatile
    /\ ~near_peak

\* SellRule pasted from the Buy rule with the trend and the MACD test left
\* unflipped
SellRulePasted(data, current_price, trend_signal, is_volatile, near_trough) ==
    /\ trend_signal = "Uptrend"
    /\ FLess(current_price, Last(data.Long_EMA))
    /\ FGreater(Last(data.RSI), Num(RSI_OVERSOLD))
    /\ FGreater(Last(data.MACD_Line), Last(data.MACD_Signal))
    /\ ~is_volatile
    /\ ~near_trough

\* lines 221-228
SellRule(data, current_price, trend_signal, is_volatile, near_trough) ==
    /\ trend_signal = "Downtrend"
    /\ FLess(current_price, Last(data.Long_EMA))
    /\ FGreater(Last(data.RSI), Num(RSI_OVERSOLD))
    /\ FLess(Last(data.MACD_Line), Last(data.MACD_Signal))
    /\ ~is_volatile
    /\ ~near_trough

make_decision(data, current_price, trends, peaks, troughs) ==
    LET trend_signal == TrendSignal(CurrentTrend(data, trends))
        is_volatile == IsVolatile(data)
        near_peak == Near(data, peaks, PROXIMITY_DAYS)
        near_trough == Near(data, troughs, PROXIMITY_DAYS)
    IN  IF BuyRule(data, current_price, trend_signal, is_volatile, near_peak)
        THEN "Buy"
        ELSE IF SellRule(data, current_price, trend_signal, is_volatile, near_trough)
        THEN "Sell"
        ELSE "Hold"


(***************************************************************************)
(* State.                                                                  *)
(***************************************************************************)
VARIABLES
    pc,             \* the statement about to run
    data,           \* the data frame: index (dates), Close and the columns added
    alt,            \* a second data frame, for comparing two histories
    lookback,       \* the lookback argument of the function under study
    trends,         \* the list analyze_trends returned
    peaks,          \* the rows find_turning_points returned as peaks
    troughs,        \* and as troughs
    current_price,  \* what get_current_price returned
    decision,       \* what make_decision returned
    trend_signal,   \* make_decision's local trend_signal
    symbols,        \* __main__: the list of symbols typed in
    idx,            \* __main__: position in symbols of the one being analysed
    status,         \* __main__: per symbol, how its analysis ended
    log             \* __main__: the final message printed, if any

vars == <<pc, data, alt, lookback, trends, peaks, troughs, current_price,
          decision, trend_signal, symbols, idx, status, log>>
batchVars == <<symbols, idx, status, log>>

NoFrame == [index |-> <<>>, Close |-> <<>>]
NoPrice == NaN

(***************************************************************************)
(* Bounds of the inputs.                                                   *)
(***************************************************************************)
\* longest history of the one-symbol pipeline
MaxLen == 7
\* closes are 1..MaxClose steps of the grid
MaxClose == 2

\* the dates of n consecutive business days, the first a Monday
Calendar(n) == [i \in 1..n |-> (i - 1) + 2 * ((i - 1) \div 5)]

\* a history of n bars whose closes are the ticks c[1..n]
Frame(c) == [index |-> Calendar(Len(c)), Close |-> CloseCol(c)]

\* all sequences of length n over S
SeqsOfLen(S, n) == [1..n -> S]
SeqsUpTo(S, lo, hi) == UNION {SeqsOfLen(S, n) : n \in lo..hi}

\* nothing computed yet
Fresh ==
    /\ trends = <<>>
    /\ peaks = <<>>
    /\ troughs = <<>>
    /\ current_price = NoPrice
    /\ decision = ""
    /\ trend_signal = ""

IdleBatch ==
    /\ symbols = <<>>
    /\ idx = 0
    /\ status = <<>>
    /\ log = ""

(***************************************************************************)
(* The analysis of one symbol, lines 249-267 of __main__, on a history     *)
(* get_historical_data returned (so it is not empty), with closes in whole *)
(* currency units.                                                         *)
(***************************************************************************)
UnitCloses == {TicksPerUnit * k : k \in 1..MaxClose}

InitPipe ==
    /\ pc = "indicators"
    /\ \E c \in SeqsUpTo(UnitCloses, 1, MaxLen) : data = Frame(c)
    /\ alt = NoFrame
    /\ lookback = TREND_LOOKBACK
    /\ Fresh
    /\ IdleBatch

\* line 254
CalcIndicators ==
    /\ pc = "indicators"
    /\ data' = calculate_ema_rsi_macd(data)
    /\ pc' = "trends"
    /\ UNCHANGED <<alt, lookback, trends, peaks, troughs, current_price, decision,
                   trend_signal>>
    /\ UNCHANGED batchVars

\* line 257; lookback is TREND_LOOKBACK there, the default of the argument
AnalyzeTrends ==
    /\ pc = "trends"
    /\ trends' = analyze_trends(data, lookback)
    /\ pc' = "volatility"
    /\ UNCHANGED <<data, alt, lookback, peaks, troughs, current_price, decision,
                   trend_signal>>
    /\ UNCHANGED batchVars

\* line 258
CalcVolatility ==
    /\ pc = "volatility"
    /\ data' = calculate_volatility(data, VOLATILITY_LOOKBACK, STD_MULTIPLIER)
    /\ pc' = "extrema"
    /\ UNCHANGED <<alt, lookback, trends, peaks, troughs, current_price, decision,
                   trend_signal>>
    /\ UNCHANGED batchVars

\* line 259
FindTurningPoints ==
    /\ pc = "extrema"
    /\ peaks' = find_turning_points(data).peaks
    /\ troughs' = find_turning_points(data).troughs
    /\ pc' = "price"
    /\ UNCHANGED <<data, alt, lookback, trends, current_price, decision, trend_signal>>
    /\ UNCHANGED batchVars

\* lines 262-264: a price, or None and the symbol is skipped
GetCurrentPrice ==
    /\ pc = "price"
    /\ \/ \E p \in UnitCloses \cup {TicksPerUnit * (MaxClose + 1)} :
            /\ current_price' = Price(p)
            /\ pc' = "decide"
       \/ /\ current_price' = NoPrice
          /\ pc' = "skipped"
    /\ UNCHANGED <<data, alt, lookback, trends, peaks, troughs, decision, trend_signal>>
    /\ UNCHANGED batchVars

\* line 267
MakeDecision ==
    /\ pc = "decide"
    /\ decision' = make_decision(data, current_price, trends, peaks, troughs)
    /\ trend_signal' = TrendSignal(CurrentTrend(data, trends))
    /\ pc' = "done"
    /\ UNCHANGED <<data, alt, lookback, trends, peaks, troughs, current_price>>
    /\ UNCHANGED batchVars

NextPipe ==
    \/ CalcIndicators
    \/ AnalyzeTrends
    \/ CalcVolatility
    \/ FindTurningPoints
    \/ GetCurrentPrice
    \/ MakeDecision

SpecPipe == InitPipe /\ [][NextPipe]_vars


\* the smallest of the configured windows, the lookback in use included
MinOf(S) == CHOOSE x \in S : \A y \in S : x <= y
MinWindow ==
    MinOf({SHORT_EMA_WINDOW, LONG_EMA_WINDOW, RSI_WINDOW, MACD_FAST, MACD_SLOW,
           MACD_SIGNAL, VOLATILITY_LOOKBACK, lookback})

\* C5: a history of at least one bar that is shorter than every configured
\* window goes through analyze_trends, calculate_volatility,
\* find_turning_points and make_decision, and the decision is Hold, whatever
\* the closes and the current price.
C5_ShortHistoryHolds ==
    (pc = "done" /\ Len(data.Close) >= 1 /\ Len(data.Close) < MinWindow) =>
        decision = "Hold"

\* a short history on which the price, RSI and MACD tests of the Buy rule
\* hold and a turning point was found, decided Hold
C5_Witness ==
    /\ pc = "done"
    /\ Len(data.Close) = MinWindow - 2
    /\ trends = <<>>
    /\ troughs # <<>>
    /\ FGreater(current_price, Last(data.Short_EMA))
    /\ FLess(Last(data.RSI), Num(RSI_OVERBOUGHT))
    /\ FGreater(Last(data.MACD_Line), Last(data.MACD_Signal))
    /\ decision = "Hold"

\* avg_gain and avg_loss of calculate_ema_rsi_macd (lines 48-52)
AvgGain == ewm_mean(gain_of(diff(data.Close)), 1, RSI_WINDOW)
AvgLoss == ewm_mean(loss_of(diff(data.Close)), 1, RSI_WINDOW)

\* C4: once the indicators are computed, the RSI at every index is a number
\* in [0, 100]; it is 100 wherever the smoothed average loss is 0, and 0
\* wherever the average gain is 0 and the average loss is positive.
C4_RsiDefined ==
    pc # "indicators" =>
        \A i \in 1..Len(data.Close) :
            /\ IsNum(data.RSI[i])
            /\ FLeq(Num(0), data.RSI[i]) /\ FLeq(data.RSI[i], Num(100))
            /\ FSame(AvgLoss[i], Num(0)) => FSame(data.RSI[i], Num(100))
            /\ (FSame(AvgGain[i], Num(0)) /\ FGreater(AvgLoss[i], Num(0)))
                  => FSame(data.RSI[i], Num(0))

(***************************************************************************)
(* make_decision on its own: the arguments are drawn from small sets that  *)
(* put every comparison of the rule on both sides of, and exactly at, its  *)
(* threshold.  The frame has three bars; the columns are constant, since   *)
(* make_decision reads only their last entry (and all of Volatility).      *)
(***************************************************************************)
DecDates == <<0, 1, 6>>

ConstCol(v) == [i \in 1..Len(DecDates) |-> v]

DecFrame(short, long, rsi, line, signal, vol) ==
    [index |-> DecDates, Close |-> ConstCol(Num(2)),
     Short_EMA |-> ConstCol(short), Long_EMA |-> ConstCol(long),
     RSI |-> ConstCol(rsi), MACD_Line |-> ConstCol(line),
     MACD_Signal |-> ConstCol(signal), Volatility |-> vol]

Seg(date, slope) == [date |-> date, slope |-> slope, intercept |-> Num(0)]

\* trend lists: none; one segment at the last bar, rising, falling or
\* exactly at a threshold; two segments of opposite directions
DecTrends ==
    {<<>>} \cup
    {<<Seg(6, Ratio(k, 1000))>> : k \in {2, 1, -1, -2}} \cup
    {<<Seg(1, Ratio(-2, 1000)), Seg(6, Ratio(2, 1000))>>,
     <<Seg(1, Ratio(2, 1000)), Seg(6, Ratio(-2, 1000))>>}

\* Volatility columns: window never full; last value at the mean; above it
DecVolatility ==
    {<<NaN, NaN, NaN>>, <<NaN, Num(1), Num(1)>>, <<NaN, Num(1), Num(3)>>}

\* turning-point rows: none, the bar 6 days back, the bar 5 days back
Row(pos) == [pos |-> pos, date |-> DecDates[pos + 1], Close |-> Num(2)]
DecRows == {<<>>, <<Row(0)>>, <<Row(1)>>}

InitDec ==
    /\ pc = "decide"
    /\ \E short \in {Num(1), Num(2)}, long \in {Num(2), Num(3)},
          rsi \in {NaN, Num(30), Num(50), Num(70)},
          line \in {Num(-1), Num(0), Num(1)},
          vol \in DecVolatility :
            data = DecFrame(short, long, rsi, line, Num(0), vol)
    /\ current_price \in {Num(1), Num(2), Num(3)}
    /\ trends \in DecTrends
    /\ peaks \in DecRows
    /\ troughs \in DecRows
    /\ ~(peaks # <<>> /\ peaks = troughs)
    /\ alt = NoFrame
    /\ lookback = TREND_LOOKBACK
    /\ decision = ""
    /\ trend_signal = ""
    /\ IdleBatch

NextDec == MakeDecision

SpecDec == InitDec /\ [][NextDec]_vars


(***************************************************************************)
(* The decision rule, stated on the arguments of make_decision.            *)
(***************************************************************************)
\* the segment make_decision classifies: the last one dated at or before
\* the last bar
Classified(seg) ==
    /\ \E j \in 1..Len(trends) : trends[j] = seg
    /\ seg.date <= Last(data.index)
    /\ \A j \in 1..Len(trends) :
          trends[j].date <= Last(data.index) => trends[j].date <= seg.date

StatedUptrend == \E j \in 1..Len(trends) :
    Classified(trends[j]) /\ FGreater(trends[j].slope, Ratio(1, 1000))
StatedDowntrend == \E j \in 1..Len(trends) :
    Classified(trends[j]) /\ FLess(trends[j].slope, Ratio(-1, 1000))

StatedVolatile == FGreater(Last(data.Volatility), NanMean(data.Volatility))
StatedNearPeak == \E j \in 1..Len(peaks) :
    Last(data.index) - peaks[j].date \in 0..5
StatedNearTrough == \E j \in 1..Len(troughs) :
    Last(data.index) - troughs[j].date \in 0..5

StatedBuy ==
    /\ StatedUptrend
    /\ FGreater(current_price, Last(data.Short_EMA))
    /\ FLess(Last(data.RSI), Num(70))
    /\ FGreater(Last(data.MACD_Line), Last(data.MACD_Signal))
    /\ ~StatedVolatile
    /\ ~StatedNearPeak

StatedSell ==
    /\ StatedDowntrend
    /\ FLess(current_price, Last(data.Long_EMA))
    /\ FGreater(Last(data.RSI), Num(30))
    /\ FLess(Last(data.MACD_Line), Last(data.MACD_Signal))
    /\ ~StatedVolatile
    /\ ~StatedNearTrough

\* C1: once make_decision has returned, the result is Buy exactly when the
\* Buy conditions hold (Uptrend, price > short EMA, RSI < 70, MACD line >
\* signal, not volatile, not near a peak); otherwise it is Sell exactly when
\* the Sell conditions hold (Downtrend, price < long EMA, RSI > 30, MACD
\* line < signal, not volatile, not near a trough); in every other case it
\* is Hold.
C1_DecisionRule ==
    pc = "done" =>
        /\ decision \in {"Buy", "Sell", "Hold"}
        /\ decision = "Buy" <=> StatedBuy
        /\ decision = "Sell" <=> (~StatedBuy /\ StatedSell)
        /\ decision = "Hold" <=> (~StatedBuy /\ ~StatedSell)

\* a Sell returned at the edge of the Buy rule: the price equals the short
\* EMA, everything else of the Buy rule but the trend aside
C1_Witness ==
    /\ pc = "done"
    /\ decision = "Sell"
    /\ FSame(current_price, Last(data.Short_EMA))
    /\ FSame(Last(data.RSI), Num(70))

\* C10: the Buy rule and the Sell rule never hold together, so evaluating
\* the Sell rule first gives the same result as make_decision returned.
C10_RulesExclusive ==
    pc = "done" =>
        LET trend == TrendSignal(CurrentTrend(data, trends))
            buy == BuyRule(data, current_price, trend, IsVolatile(data),
                           Near(data, peaks, PROXIMITY_DAYS))
            sell == SellRule(data, current_price, trend, IsVolatile(data),
                             Near(data, troughs, PROXIMITY_DAYS))
        IN  /\ ~(buy /\ sell)
            /\ decision = IF sell THEN "Sell" ELSE IF buy THEN "Buy" ELSE "Hold"

\* a Buy returned although the price, RSI and proximity tests of the Sell
\* rule hold as well: only the trend and the MACD test keep the rules apart
C10_Witness ==
    /\ pc = "done"
    /\ decision = "Buy"
    /\ FLess(current_price, Last(data.Long_EMA))
    /\ FGreater(Last(data.RSI), Num(RSI_OVERSOLD))
    /\ ~Near(data, troughs, PROXIMITY_DAYS)


(***************************************************************************)
(* analyze_trends for any lookback argument, followed by the trend         *)
(* selection and classification of make_decision (lines 159-176).  Closes  *)
(* lie on the tick grid, so rises both below and above 0.001 a bar occur.  *)
(***************************************************************************)
\* longest history of the specifications of a single function
MaxShort == 4
\* largest lookback argument
MaxLookback == 3
\* closes are 1..MaxTick ticks
MaxTick == 5

InitTrend ==
    /\ pc = "trends"
    /\ \E c \in SeqsUpTo(1..MaxTick, 1, MaxShort) : data = Frame(c)
    /\ lookback \in 2..MaxLookback
    /\ alt = NoFrame
    /\ Fresh
    /\ IdleBatch

\* lines 159-176 of make_decision
ClassifyTrend ==
    /\ pc = "volatility"
    /\ trend_signal' = TrendSignal(CurrentTrend(data, trends))
    /\ pc' = "classified"
    /\ UNCHANGED <<data, alt, lookback, trends, peaks, troughs, current_price, decision>>
    /\ UNCHANGED batchVars

NextTrend ==
    \/ AnalyzeTrends
    \/ ClassifyTrend

SpecTrend == InitTrend /\ [][NextTrend]_vars

\* the closes, as floats, at the 0-based positions lo..hi-1
Closes(lo, hi) == SubSeq(data.Close, lo + 1, hi)

\* the residuals y[x] - (intercept + slope * x) of a segment over a window
Residuals(seg, ys) ==
    [x \in 1..Len(ys) |->
        FSub(ys[x], FAdd(seg.intercept, FMul(seg.slope, Num(x - 1))))]

\* the line of seg is the least-squares line of ys: the residuals sum to
\* zero and are orthogonal to x (the normal equations)
IsLeastSquares(seg, ys) ==
    LET r == Residuals(seg, ys)
    IN  /\ FSame(FSum(r), Num(0))
        /\ FSame(SumXY(r, Len(r)), Num(0))

\* C9: a history of n bars and a lookback L give max(0, n - L) segments, the
\* j-th for bar i = L + j - 1 (0-based), dated at bar i and fitted by least
\* squares to the L closes at i-L..i-1; make_decision then classifies the
\* last segment, and its trend is "No Trend" exactly when there is none.
C9_Segments ==
    LET n == Len(data.Close)
        L == lookback
    IN  /\ pc \in {"volatility", "classified"} =>
            /\ Len(trends) = (IF n > L THEN n - L ELSE 0)
            /\ \A j \in 1..Len(trends) :
                  LET i == L + j - 1
                  IN  /\ trends[j].date = data.index[i + 1]
                      /\ IsLeastSquares(trends[j], Closes(i - L, i))
        /\ pc = "classified" =>
            /\ trend_signal = "No Trend" <=> n <= L
            /\ trends # <<>> =>
                  /\ CurrentTrend(data, trends) = Last(trends)
                  /\ trend_signal = "Uptrend"
                        <=> FGreater(Last(trends).slope, Ratio(1, 1000))
                  /\ trend_signal = "Downtrend"
                        <=> FLess(Last(trends).slope, Ratio(-1, 1000))

\* two segments were built and the later one, falling, was classified
C9_Witness ==
    /\ pc = "classified"
    /\ Len(trends) = 2
    /\ trend_signal = "Downtrend"
    /\ FGreater(trends[1].slope, Num(0))

StrictlyIncreasing ==
    \A i \in 1..(Len(data.Close) - 1) : FLess(data.Close[i], data.Close[i + 1])

\* every bar-to-bar rise inside the window of the last segment exceeds 0.001
RisesAboveThreshold ==
    \A i \in (Len(data.Close) - lookback)..(Len(data.Close) - 2) :
        FGreater(FSub(data.Close[i + 1], data.Close[i]), Ratio(1, 1000))

\* C7 as stated: on a strictly increasing history longer than the lookback
\* every segment has a positive slope and the trend is classified Uptrend.
C7_AsStated ==
    (pc = "classified" /\ StrictlyIncreasing /\ Len(data.Close) > lookback) =>
        /\ \A j \in 1..Len(trends) : FGreater(trends[j].slope, Num(0))
        /\ trend_signal = "Uptrend"

\* C7 amended: on a strictly increasing history longer than the lookback
\* every segment has a positive slope; the trend is classified Uptrend or
\* Sideways, and Uptrend whenever every bar-to-bar rise in the window of the
\* last segment exceeds 0.001.
C7_Amended ==
    (pc = "classified" /\ StrictlyIncreasing /\ Len(data.Close) > lookback) =>
        /\ \A j \in 1..Len(trends) : FGreater(trends[j].slope, Num(0))
        /\ trend_signal \in {"Uptrend", "Sideways"}
        /\ RisesAboveThreshold => trend_signal = "Uptrend"

\* a strictly increasing history whose rises all exceed 0.001, classified
C7_Witness ==
    /\ pc = "classified"
    /\ StrictlyIncreasing
    /\ Len(data.Close) > lookback
    /\ RisesAboveThreshold
    /\ trend_signal = "Uptrend"

(***************************************************************************)
(* find_turning_points on its own, on histories long enough for a bar with *)
(* EXTREMA_ORDER neighbours on both sides; the closes take a low and a     *)
(* high value.                                                             *)
(***************************************************************************)
\* longest history given to find_turning_points
MaxExtLen == 11

LowHigh == {TicksPerUnit, 2 * TicksPerUnit}

InitExt ==
    /\ pc = "extrema"
    /\ \E c \in SeqsUpTo(LowHigh, 1, MaxExtLen) : data = Frame(c)
    /\ alt = NoFrame
    /\ lookback = TREND_LOOKBACK
    /\ Fresh
    /\ IdleBatch

NextExt == FindTurningPoints

SpecExt == InitExt /\ [][NextExt]_vars

Positions(rows) == {rows[j].pos : j \in 1..Len(rows)}

\* the 0-based positions within `order` of i, i excluded, that exist
Neighbours(i) ==
    {j \in 0..(Len(data.Close) - 1) :
        j # i /\ j >= i - EXTREMA_ORDER /\ j <= i + EXTREMA_ORDER}

\* C6 as stated: peaks and troughs are disjoint, every returned position has
\* 5 bars on both sides, and its close is strictly above (peak) or below
\* (trough) the closes of the 5 bars before and the 5 bars after it.
C6_AsStated ==
    pc = "price" =>
        LET n == Len(data.Close)
        IN  /\ Positions(peaks) \cap Positions(troughs) = {}
            /\ \A i \in Positions(peaks) :
                  /\ 5 <= i /\ i <= n - 6
                  /\ \A j \in Neighbours(i) : FGreater(data.Close[i + 1], data.Close[j + 1])
            /\ \A i \in Positions(troughs) :
                  /\ 5 <= i /\ i <= n - 6
                  /\ \A j \in Neighbours(i) : FLess(data.Close[i + 1], data.Close[j + 1])

\* C6 amended: peaks and troughs are disjoint; the close at every returned
\* position is strictly above (peak) or below (trough) the close of every
\* existing bar up to 5 places before or after it; the first and the last
\* bar are never returned (a bar fewer than 5 places from an end can be).
C6_Amended ==
    pc = "price" =>
        LET n == Len(data.Close)
        IN  /\ Positions(peaks) \cap Positions(troughs) = {}
            /\ \A i \in Positions(peaks) :
                  /\ 1 <= i /\ i <= n - 2
                  /\ \A j \in Neighbours(i) : FGreater(data.Close[i + 1], data.Close[j + 1])
            /\ \A i \in Positions(troughs) :
                  /\ 1 <= i /\ i <= n - 2
                  /\ \A j \in Neighbours(i) : FLess(data.Close[i + 1], data.Close[j + 1])

\* a peak with 5 bars on both sides was returned
C6_Witness ==
    /\ pc = "price"
    /\ \E i \in Positions(peaks) : 5 <= i /\ i <= Len(data.Close) - 6
    /\ troughs = <<>>

(***************************************************************************)
(* The indicators of two histories, to compare them bar by bar:            *)
(* calculate_ema_rsi_macd and calculate_volatility are applied to `data`   *)
(* and to `alt`.  The window of calculate_volatility is its argument       *)
(* `lookback`, small enough here for the rolling window to fill.           *)
(***************************************************************************)
\* longest history of the comparison
MaxIndLen == 4
\* largest rolling window of the comparison
MaxIndLookback == 3

InitInd ==
    /\ pc = "ind_data"
    /\ \E c \in SeqsUpTo(LowHigh, 1, MaxIndLen) : data = Frame(c)
    /\ \E c \in SeqsUpTo(LowHigh, 1, MaxIndLen) : alt = Frame(c)
    /\ lookback \in 2..MaxIndLookback
    /\ Fresh
    /\ IdleBatch

IndUnchanged ==
    /\ UNCHANGED <<lookback, trends, peaks, troughs, current_price, decision,
                   trend_signal>>
    /\ UNCHANGED batchVars

IndicatorsOfData ==
    /\ pc = "ind_data"
    /\ data' = calculate_ema_rsi_macd(data)
    /\ pc' = "ind_alt"
    /\ UNCHANGED alt
    /\ IndUnchanged

IndicatorsOfAlt ==
    /\ pc = "ind_alt"
    /\ alt' = calculate_ema_rsi_macd(alt)
    /\ pc' = "vol_data"
    /\ UNCHANGED data
    /\ IndUnchanged

VolatilityOfData ==
    /\ pc = "vol_data"
    /\ data' = calculate_volatility(data, lookback, STD_MULTIPLIER)
    /\ pc' = "vol_alt"
    /\ UNCHANGED alt
    /\ IndUnchanged

VolatilityOfAlt ==
    /\ pc = "vol_alt"
    /\ alt' = calculate_volatility(alt, lookback, STD_MULTIPLIER)
    /\ pc' = "both"
    /\ UNCHANGED data
    /\ IndUnchanged

NextInd ==
    \/ IndicatorsOfData
    \/ IndicatorsOfAlt
    \/ VolatilityOfData
    \/ VolatilityOfAlt

SpecInd == InitInd /\ [][NextInd]_vars

\* the two histories have bar i (1-based) and agree on bars 1..i
AgreeUpTo(i) ==
    /\ i <= Len(data.Close) /\ i <= Len(alt.Close)
    /\ \A j \in 1..i : FSame(data.Close[j], alt.Close[j])

\* C8: for two close series that agree on the bars up to i, Short_EMA,
\* Long_EMA, RSI, MACD_Line, MACD_Signal, MACD_Hist, Volatility, Upper_Band
\* and Lower_Band have the same value at bar i (undefined in both, or the
\* same number), whatever the later bars are.
C8_Causal ==
    pc = "both" =>
        \A i \in 1..Len(data.Close) :
            AgreeUpTo(i) =>
                /\ FSame(data.Short_EMA[i], alt.Short_EMA[i])
                /\ FSame(data.Long_EMA[i], alt.Long_EMA[i])
                /\ FSame(data.RSI[i], alt.RSI[i])
                /\ FSame(data.MACD_Line[i], alt.MACD_Line[i])
                /\ FSame(data.MACD_Signal[i], alt.MACD_Signal[i])
                /\ FSame(data.MACD_Hist[i], alt.MACD_Hist[i])
                /\ FSame(data.Volatility[i], alt.Volatility[i])
                /\ BandSame(data.Upper_Band[i], alt.Upper_Band[i])
                /\ BandSame(data.Lower_Band[i], alt.Lower_Band[i])

\* two histories that agree up to a bar where RSI and Volatility are numbers
\* and the volatility is not 0, and differ on the next bar
C8_Witness ==
    /\ pc = "both"
    /\ \E i \in 2..MaxIndLen :
          /\ AgreeUpTo(i)
          /\ i < Len(data.Close) /\ i < Len(alt.Close)
          /\ ~FSame(data.Close[i + 1], alt.Close[i + 1])
          /\ IsNum(data.RSI[i])
          /\ data.Volatility[i].k = "sqrt"
          /\ data.Upper_Band[i].k = "band"

(***************************************************************************)
(* The batch run, lines 236-322 of __main__: one try block around the      *)
(* whole loop over the symbols, its except clause after the loop.  A       *)
(* symbol stands for what the outside world answers for it: whether        *)
(* yf.download returns rows, whether ticker.history returns a quote, and   *)
(* the stage of the analysis, if any, in which a library call raises (the  *)
(* instance in the source: LinearRegression.fit raises ValueError in       *)
(* analyze_trends when a Close of the window is NaN).                      *)
(***************************************************************************)
\* most symbols in one batch
MaxSymbols == 2

Stages == {"indicators", "trends", "volatility", "extrema", "decision"}

Feeds ==
    [history : {"empty", "rows"}, price : {"none", "quote"},
     fault : Stages \cup {"none"}]

pipeVars ==
    <<data, alt, lookback, trends, peaks, troughs, current_price, decision,
      trend_signal>>

InitBatch ==
    /\ pc = "input"
    /\ symbols \in SeqsUpTo(Feeds, 1, MaxSymbols)
    /\ idx = 0
    /\ status = [j \in 1..Len(symbols) |-> "pending"]
    /\ log = ""
    /\ data = NoFrame
    /\ alt = NoFrame
    /\ lookback = TREND_LOOKBACK
    /\ Fresh

\* the end of one pass of the loop body (a `continue` or its last line):
\* the next symbol, or line 318 after the last one
NextSymbol ==
    IF idx < Len(symbols)
    THEN idx' = idx + 1 /\ pc' = "history"
    ELSE idx' = idx /\ pc' = "completed"

\* a call of stage st for the current symbol: it raises, and control leaves
\* the loop for the except clause, or it returns and the loop body goes on
Stage(st, next) ==
    IF symbols[idx].fault = st
    THEN /\ status' = [status EXCEPT ![idx] = "failed"]
         /\ pc' = "except"
         /\ UNCHANGED <<symbols, idx, log>>
    ELSE /\ pc' = next
         /\ UNCHANGED batchVars

\* lines 238-244: symbols is never empty (str.split returns at least [""])
BatchInput ==
    /\ pc = "input"
    /\ idx' = 1
    /\ pc' = "history"
    /\ UNCHANGED <<symbols, status, log>>
    /\ UNCHANGED pipeVars

\* lines 249-251: get_historical_data returns None on an empty frame
BatchHistory ==
    /\ pc = "history"
    /\ IF symbols[idx].history = "empty"
       THEN /\ status' = [status EXCEPT ![idx] = "skipped"]
            /\ NextSymbol
            /\ UNCHANGED <<symbols, log>>
       ELSE /\ pc' = "indicators"
            /\ UNCHANGED batchVars
    /\ UNCHANGED pipeVars

\* line 254
BatchIndicators ==
    /\ pc = "indicators"
    /\ Stage("indicators", "trends")
    /\ UNCHANGED pipeVars

\* line 257
BatchTrends ==
    /\ pc = "trends"
    /\ Stage("trends", "volatility")
    /\ UNCHANGED pipeVars

\* line 258
BatchVolatility ==
    /\ pc = "volatility"
    /\ Stage("volatility", "extrema")
    /\ UNCHANGED pipeVars

\* line 259
BatchExtrema ==
    /\ pc = "extrema"
    /\ Stage("extrema", "price")
    /\ UNCHANGED pipeVars

\* lines 262-264: get_current_price returns None on an empty frame
BatchPrice ==
    /\ pc = "price"
    /\ IF symbols[idx].price = "none"
       THEN /\ status' = [status EXCEPT ![idx] = "skipped"]
            /\ NextSymbol
            /\ UNCHANGED <<symbols, log>>
       ELSE /\ pc' = "decide"
            /\ UNCHANGED batchVars
    /\ UNCHANGED pipeVars

\* lines 267-315: the decision is computed and the report printed
BatchDecision ==
    /\ pc = "decide"
    /\ IF symbols[idx].fault = "decision"
       THEN /\ status' = [status EXCEPT ![idx] = "failed"]
            /\ pc' = "except"
            /\ UNCHANGED <<symbols, idx, log>>
       ELSE /\ status' = [status EXCEPT ![idx] = "decided"]
            /\ NextSymbol
            /\ UNCHANGED <<symbols, log>>
    /\ UNCHANGED pipeVars

\* line 318
BatchCompleted ==
    /\ pc = "completed"
    /\ log' = "completed"
    /\ pc' = "done"
    /\ UNCHANGED <<symbols, idx, status>>
    /\ UNCHANGED pipeVars

\* lines 321-322
BatchExcept ==
    /\ pc = "except"
    /\ log' = "error"
    /\ pc' = "done"
    /\ UNCHANGED <<symbols, idx, status>>
    /\ UNCHANGED pipeVars

NextBatch ==
    \/ BatchInput
    \/ BatchHistory
    \/ BatchIndicators
    \/ BatchTrends
    \/ BatchVolatility
    \/ BatchExtrema
    \/ BatchPrice
    \/ BatchDecision
    \/ BatchCompleted
    \/ BatchExcept

SpecBatch == InitBatch /\ [][NextBatch]_vars

\* the loop body was entered for symbol j
Processed(j) == status[j] \in {"skipped", "decided", "failed"}

\* C2: when the batch has ended, every symbol that comes after one whose
\* analysis raised has been processed.
C2_BatchSurvives ==
    pc = "done" =>
        \A j \in 1..Len(symbols) : \A k \in (j + 1)..Len(symbols) :
            status[j] = "failed" => Processed(k)

\* C3: when the batch has ended and a symbol was skipped for having no
\* history or no price (so no decision was computed for it), every symbol
\* after it has been processed and the batch has printed the completion
\* message.
C3_SkipAndComplete ==
    pc = "done" =>
        \A j \in 1..Len(symbols) :
            status[j] = "skipped" =>
                /\ \A k \in (j + 1)..Len(symbols) : Processed(k)
                /\ log = "completed"

=============================================================================
